---- MODULE Spec2Model ----
(***************************************************************************)
(* A model of keg's CDN layer (src/keg/cdn.py): the path scheme, the       *)
(* BaseCDN fetch/verify operations, RemoteCDN path joining, and LocalCDN   *)
(* with its HTTPCacheWrapper writer over a POSIX file system (paths,       *)
(* inodes, open handles).                                                  *)
(*                                                                         *)
(* Strings are sequences of characters.  Hex digits of keys, "/" and "."   *)
(* are single characters; a directory or file name whose letters no        *)
(* operation looks into ("cdn", "config", ".keg_temp", ...) is one         *)
(* character of the alphabet.                                              *)
(***************************************************************************)
EXTENDS Integers, Sequences, FiniteSets, TLC

VARIABLES
    files,      \* the directory entries that are files: path -> inode number
    dirs,       \* the directories that exist
    content,    \* the bytes of every live inode: inode number -> bytes
    w,          \* per caller: the operation in progress and its locals
    landed,     \* history: final path -> the write whose rename landed last
    started,    \* history: the writes begun so far, as <<final path, payload>>
    nops,       \* history: number of operations started
    uuids,      \* number of uuid4() values drawn so far
    inp,        \* arguments of the pure call under study (fetch / join)
    out         \* its outcome

vars == <<files, dirs, content, w, landed, started, nops, uuids, inp, out>>

----------------------------------------------------------------------------
(* Bounds of the model *)

NProcs == 2
MaxOps == 2
MaxLen == 2

Procs == 1..NProcs
\* a two-letter alphabet of bytes; 0 is also what a gap in a file reads as
Bytes == {0, 1}
Payloads == UNION {[1..n -> Bytes] : n \in 0..MaxLen}

SEP == "/"

\* inp and out while no pure call is under study
NoInput == [kind |-> "none"]
NoCall == [op |-> "none"]

----------------------------------------------------------------------------
(* Python string operations *)

Max(a, b) == IF a >= b THEN a ELSE b
Min(a, b) == IF a <= b THEN a ELSE b

RECURSIVE LStrip(_, _)
\* str.lstrip(ch)
LStrip(s, ch) ==
    IF s # <<>> /\ Head(s) = ch THEN LStrip(Tail(s), ch) ELSE s

RECURSIVE RStrip(_, _)
\* str.rstrip(ch)
RStrip(s, ch) ==
    IF s # <<>> /\ s[Len(s)] = ch THEN RStrip(SubSeq(s, 1, Len(s) - 1), ch) ELSE s

\* str.rfind(ch) + 1: the 1-based place of the last ch, 0 when there is none
RFind1(s, ch) ==
    LET at == {i \in 1..Len(s) : s[i] = ch}
    IN  IF at = {} THEN 0 ELSE CHOOSE i \in at : \A j \in at : j <= i

\* s == ch * len(s)
AllOf(s, ch) == \A i \in 1..Len(s) : s[i] = ch

\* posixpath.join(a, b)
PathJoin(a, b) ==
    IF b # <<>> /\ Head(b) = SEP THEN b
    ELSE IF a = <<>> \/ a[Len(a)] = SEP THEN a \o b
    ELSE a \o <<SEP>> \o b

\* posixpath.dirname(p)
DirName(p) ==
    LET head == SubSeq(p, 1, RFind1(p, SEP))
    IN  IF head # <<>> /\ ~AllOf(head, SEP) THEN RStrip(head, SEP) ELSE head

\* every directory os.makedirs(d) makes sure of: d and the directories above it
DirChain(d) ==
    {SubSeq(d, 1, i) : i \in {j \in 1..Len(d) : j = Len(d) \/ d[j + 1] = SEP}}
        \ {<<>>}

----------------------------------------------------------------------------
(* The path scheme *)

PrefixWidth == 2

\* utils.partition_hash(key): two fixed-width prefix segments, then the key
partition_hash(key) ==
    SubSeq(key, 1, PrefixWidth) \o <<SEP>>
        \o SubSeq(key, PrefixWidth + 1, 2 * PrefixWidth) \o <<SEP>> \o key

get_config_path(key) == <<SEP, "config", SEP>> \o partition_hash(key)
get_data_path(key) == <<SEP, "data", SEP>> \o partition_hash(key)
get_data_index_path(key) == get_data_path(key) \o <<".index">>
get_patch_path(key) == <<SEP, "patch", SEP>> \o partition_hash(key)
get_patch_index_path(key) == get_patch_path(key) \o <<".index">>
get_config_item_path(key) == <<SEP>> \o partition_hash(key)

----------------------------------------------------------------------------
(* LocalCDN: configuration and path derivation *)

base_dir == <<SEP, "cdn">>
temp_dir == <<SEP, "tmp">>
armadillo_dir == <<SEP, "arm">>
armadillo_objects_dir == PathJoin(armadillo_dir, <<"objects">>)

get_full_path(path) == PathJoin(base_dir, LStrip(path, SEP))
get_encrypted_path(path) == PathJoin(armadillo_objects_dir, LStrip(path, SEP))
LocalConfigPath(path) ==
    PathJoin(PathJoin(PathJoin(base_dir, <<"configs">>), <<"data">>),
             LStrip(path, SEP))

----------------------------------------------------------------------------
(* The file system *)

\* what reading a path that names no file gives: no byte string has byte -1
Absent == <<-1>>

\* os.path.exists(p)
Exists(fs, ds, p) == p \in DOMAIN fs \/ p \in ds

\* what a reader opening p and reading to the end gets
FileAt(fs, ct, p) == IF p \in DOMAIN fs THEN ct[fs[p]] ELSE Absent

\* the smallest inode number not in use
FreshInode(ct) == CHOOSE i \in 1..(Cardinality(DOMAIN ct) + 1) : i \notin DOMAIN ct

\* the inodes some caller holds open
HeldInodes(ws) == {ws[p].ino : p \in {q \in DOMAIN ws : ws[q].fopen}}

\* drop the inodes that have neither a directory entry nor an open handle
Reap(ct, fs, ws) ==
    LET live == {fs[p] : p \in DOMAIN fs} \cup HeldInodes(ws)
    IN  [i \in DOMAIN ct \cap live |-> ct[i]]

\* a write that forgets the handle's position and always starts at 0
WriteAtStart(c, off, data) ==
    [i \in 1..Max(Len(c), Len(data)) |->
        IF i <= Len(data) THEN data[i] ELSE c[i]]

\* file.write(data) through a handle at offset off (a gap reads as zeros)
WriteAt(c, off, data) ==
    [i \in 1..Max(Len(c), off + Len(data)) |->
        IF i > off /\ i <= off + Len(data) THEN data[i - off]
        ELSE IF i <= Len(c) THEN c[i] ELSE 0]

\* the inode contents once the file object h (a caller's open handle, at
\* position h.off with the bytes h.buf still in its buffer) has flushed
Flushed(ct, h) ==
    IF h.fopen /\ h.buf # <<>>
    THEN [ct EXCEPT ![h.ino] = WriteAt(@, h.off - Len(h.buf), h.buf)]
    ELSE ct

\* file.write(data) on the file object h: the bytes stay in its buffer, or
\* go to the file at the handle's position
FileWrite(ct, h, data) ==
    IF h.src.small THEN ct ELSE [ct EXCEPT ![h.ino] = WriteAt(@, h.off, data)]
Written(h, data) ==
    [h EXCEPT !.off = @ + Len(data),
              !.buf = IF h.src.small THEN @ \o data ELSE @]

\* file.close(): flush, then give up the handle
Closed(h) == [h EXCEPT !.fopen = FALSE, !.buf = <<>>]

\* a rename that unlinks an existing dst and then gives up
RenameUnlinkFirst(fs, src, dst) ==
    IF dst \in DOMAIN fs
    THEN [q \in DOMAIN fs \ {dst} |-> fs[q]]
    ELSE [q \in (DOMAIN fs \ {src}) \cup {dst} |->
            IF q = dst THEN fs[src] ELSE fs[q]]

\* os.rename(src, dst) of a file that exists: dst names src's inode, src is gone
RenameEntry(fs, src, dst) ==
    [q \in (DOMAIN fs \ {src}) \cup {dst} |-> IF q = dst THEN fs[src] ELSE fs[q]]

\* LocalCDN.get_item(path).read() / get_config_item(path).read() in file
\* system fs with inode contents ct; Absent stands for open() raising
\* FileNotFoundError
get_item(fs, ct, path) ==
    IF get_full_path(path) \in DOMAIN fs THEN ct[fs[get_full_path(path)]]
    ELSE Absent
get_config_item(fs, ct, path) ==
    IF LocalConfigPath(path) \in DOMAIN fs THEN ct[fs[LocalConfigPath(path)]]
    ELSE Absent

\* LocalCDN.exists(path) and the has_* checks, in file system fs with
\* directories ds
exists(fs, ds, path) == Exists(fs, ds, get_full_path(path))
has_config(fs, ds, key) == exists(fs, ds, get_config_path(key))
has_data(fs, ds, key) == exists(fs, ds, get_data_path(key))
has_index(fs, ds, key) == exists(fs, ds, get_data_index_path(key))
has_patch(fs, ds, key) == exists(fs, ds, get_patch_path(key))
has_patch_index(fs, ds, key) == exists(fs, ds, get_patch_index_path(key))

\* a has_config_item that looks under the content root, as exists() does
has_config_item_plain(fs, ds, key) == exists(fs, ds, get_config_item_path(key))

has_config_item(fs, ds, key) ==
    Exists(fs, ds, LocalConfigPath(<<SEP>> \o partition_hash(key)))

has_encrypted_file(fs, ds, path) == Exists(fs, ds, get_encrypted_path(path))

----------------------------------------------------------------------------
(* Sources: the readable stream handed to a writer *)

\* HTTPCacheWrapper.close drains with self.read(8192)
ChunkSize == 8192

\* A source holds data, delivers it read by read, and raises at failAt (the
\* number of bytes delivered before the error; -1: it never fails).  What a
\* file object does with the bytes written to it depends on how much it is
\* given at a time: a source is small when what it delivers stays in the file
\* object's buffer until the file is flushed, and otherwise every write
\* reaches the file.
SourcesOf(payloads, small) ==
    UNION {{[data |-> d, small |-> small, pos |-> 0, failAt |-> f,
             closed |-> FALSE] : f \in -1..(Len(d) - 1)} : d \in payloads}

Sources == SourcesOf(Payloads, FALSE)
SmallSources == SourcesOf(Payloads, TRUE)

NoSource ==
    [data |-> <<>>, small |-> FALSE, pos |-> 0, failAt |-> -1, closed |-> FALSE]

\* the place reads stop at: the failure point, or the end of the data
SrcLimit(src) == IF src.failAt >= 0 THEN src.failAt ELSE Len(src.data)

\* fp.read(size) raises
SrcRaises(src, size) ==
    IF size < 0 THEN src.failAt >= src.pos ELSE src.pos = src.failAt

\* the lengths fp.read(size) may return (a stream may return fewer bytes than
\* asked for; it returns no bytes only at the end of the data)
SrcReadLens(src, size) ==
    IF src.pos = Len(src.data) THEN {0}
    ELSE IF size < 0 THEN {Len(src.data) - src.pos}
    ELSE IF size = 0 THEN {0}
    ELSE 1..Min(size, SrcLimit(src) - src.pos)

SrcChunk(src, n) == SubSeq(src.data, src.pos + 1, src.pos + n)

----------------------------------------------------------------------------
(* Callers *)

Idle ==
    [op |-> "none", b |-> <<>>, ino |-> 0, fopen |-> FALSE, off |-> 0,
     buf |-> <<>>, src |-> NoSource, pc |-> "idle", logical |-> <<>>,
     real |-> <<>>, temp |-> <<>>, need_mk |-> FALSE, got |-> <<>>,
     err |-> "none", pre |-> Absent, buf_size |-> -1, ret |-> <<>>]

AllIdle == \A q \in Procs : w[q].pc = "idle"

\* history: the rename of caller p's write of data landed on path
Land(l, path, p, data) ==
    [q \in DOMAIN l \cup {path} |->
        IF q = path THEN [data |-> data, by |-> p] ELSE l[q]]

\* an exception leaves the operation
Raise(p, e) == [w EXCEPT ![p].pc = "failed", ![p].err = e]

K1 == <<"a", "b", "c", "d">>

\* the logical paths callers save under: an archive and its index share a
\* directory, and the index's name extends the archive's
ItemPaths == {get_data_path(K1), get_data_index_path(K1)}
ConfigItemPaths == {get_config_item_path(K1)}

----------------------------------------------------------------------------
(* LocalCDN.save_item / save_config_item and HTTPCacheWrapper *)

\* a writer that stages in place, at the target path itself
TempPathInPlace(path) == path

\* self._temp_path = path + ".keg_temp"
TempPath(path) == path \o <<".keg_temp">>

StartSave(p, opname, path, real, src) ==
    /\ w[p].pc = "idle"
    /\ nops < MaxOps
    /\ w' = [w EXCEPT ![p] =
                [Idle EXCEPT !.op = opname, !.pc = "init_exists",
                             !.logical = path, !.real = real, !.src = src,
                             !.pre = FileAt(files, content, real)]]
    /\ nops' = nops + 1
    /\ started' = started \cup {<<real, src.data>>}
    /\ UNCHANGED <<files, dirs, content, landed, uuids, inp, out>>

\* cache_file_path = self.get_full_path(path); HTTPCacheWrapper(item, ...)
save_item(p, path, src) ==
    StartSave(p, "save_item", path, get_full_path(path), src)

\* cache_file_path = self.get_config_path(path); HTTPCacheWrapper(item, ...)
save_config_item(p, path, src) ==
    StartSave(p, "save_config_item", path, LocalConfigPath(path), src)

\* __init__: if not os.path.exists(dir_path)
HCW_exists(p) ==
    /\ w[p].pc = "init_exists"
    /\ LET missing == ~Exists(files, dirs, DirName(w[p].real))
       IN  w' = [w EXCEPT ![p].need_mk = missing,
                          ![p].pc = IF missing THEN "init_makedirs"
                                    ELSE "init_open"]
    /\ UNCHANGED <<files, dirs, content, landed, started, nops, uuids, inp, out>>

\* __init__: os.makedirs(dir_path), which raises when the directory exists
HCW_makedirs(p) ==
    /\ w[p].pc = "init_makedirs"
    /\ LET d == DirName(w[p].real)
       IN  IF Exists(files, dirs, d)
           THEN /\ w' = Raise(p, "FileExistsError")
                /\ dirs' = dirs
           ELSE /\ w' = [w EXCEPT ![p].pc = "init_open"]
                /\ dirs' = dirs \cup DirChain(d)
    /\ UNCHANGED <<files, content, landed, started, nops, uuids, inp, out>>

\* __init__: self._cache_file = open(self._temp_path, "wb")
HCW_open(p) ==
    /\ w[p].pc = "init_open"
    /\ LET t == TempPath(w[p].real)
           i == IF t \in DOMAIN files THEN files[t] ELSE FreshInode(content)
       IN  IF DirName(t) \notin dirs
           THEN /\ w' = Raise(p, "FileNotFoundError")
                /\ UNCHANGED <<files, content>>
           ELSE /\ files' = [q \in DOMAIN files \cup {t} |->
                                IF q = t THEN i ELSE files[q]]
                /\ content' = [j \in DOMAIN content \cup {i} |->
                                IF j = i THEN <<>> ELSE content[j]]
                /\ w' = [w EXCEPT ![p].temp = t, ![p].fopen = TRUE,
                                  ![p].ino = i, ![p].off = 0,
                                  ![p].pc = IF w[p].op = "HTTPCacheWrapper"
                                            THEN "consume" ELSE "read"]
    /\ UNCHANGED <<dirs, landed, started, nops, uuids, inp, out>>

\* A consumer constructs the wrapper itself, over the cache file of a logical
\* path, reads through it, and closes it.
HTTPCacheWrapper(p, path, src) ==
    StartSave(p, "HTTPCacheWrapper", path, get_full_path(path), src)

\* the sizes a consumer reads with: everything, nothing, a byte, a chunk
ReadSizes == {-1, 0, 1, ChunkSize}

\* a read that hands the bytes on without writing them
read_unmirrored(p, size) ==
    /\ w[p].pc = "consume"
    /\ IF SrcRaises(w[p].src, size)
       THEN w' = Raise(p, "IOError")
       ELSE \E n \in SrcReadLens(w[p].src, size) :
                w' = [w EXCEPT ![p].src.pos = @ + n,
                               ![p].got = @ \o SrcChunk(w[p].src, n)]
    /\ UNCHANGED <<files, dirs, content, landed, started, nops, uuids, inp, out>>

\* HTTPCacheWrapper.read(size), called by the consumer: ret = self.fp.read()
\* or self.fp.read(size); if ret: self._cache_file.write(ret); return ret
read(p, size) ==
    /\ w[p].pc = "consume"
    /\ IF SrcRaises(w[p].src, size)
       THEN /\ w' = Raise(p, "IOError")
            /\ content' = content
       ELSE \E n \in SrcReadLens(w[p].src, size) :
                LET ret == SrcChunk(w[p].src, n)
                    h == [w[p] EXCEPT !.src.pos = @ + n, !.got = @ \o ret]
                IN  /\ content' = IF ret # <<>> THEN FileWrite(content, h, ret)
                                   ELSE content
                    /\ w' = [w EXCEPT ![p] = IF ret # <<>> THEN Written(h, ret)
                                              ELSE h]
    /\ UNCHANGED <<files, dirs, landed, started, nops, uuids, inp, out>>

\* the consumer calls close() (or leaves the with block): close's loop begins
close(p) ==
    /\ w[p].pc = "consume"
    /\ w' = [w EXCEPT ![p].pc = "read"]
    /\ UNCHANGED <<files, dirs, content, landed, started, nops, uuids, inp, out>>

\* read(size): ret = self.fp.read(size), within close's loop b = self.read(8192)
HCW_read(p) ==
    /\ w[p].pc = "read"
    /\ IF SrcRaises(w[p].src, ChunkSize)
       THEN w' = Raise(p, "IOError")
       ELSE \E n \in SrcReadLens(w[p].src, ChunkSize) :
                w' = [w EXCEPT ![p].b = SrcChunk(w[p].src, n),
                               ![p].src.pos = @ + n,
                               ![p].pc = IF n = 0 THEN "close_cache"
                                         ELSE "write"]
    /\ UNCHANGED <<files, dirs, content, landed, started, nops, uuids, inp, out>>

\* read(size): if ret: self._cache_file.write(ret)
HCW_write(p) ==
    /\ w[p].pc = "write"
    /\ content' = FileWrite(content, w[p], w[p].b)
    /\ w' = [w EXCEPT ![p] = [Written(w[p], w[p].b) EXCEPT !.pc = "read"]]
    /\ UNCHANGED <<files, dirs, landed, started, nops, uuids, inp, out>>

\* close: self._cache_file.close()
HCW_close_cache(p) ==
    /\ w[p].pc = "close_cache"
    /\ w' = [w EXCEPT ![p] = [Closed(w[p]) EXCEPT !.pc = "rename"]]
    /\ content' = Reap(Flushed(content, w[p]), files, w')
    /\ UNCHANGED <<files, dirs, landed, started, nops, uuids, inp, out>>

\* close: os.rename(self._temp_path, self._real_path)
HCW_rename(p) ==
    /\ w[p].pc = "rename"
    /\ IF w[p].temp \notin DOMAIN files
       THEN /\ w' = Raise(p, "FileNotFoundError")
            /\ UNCHANGED <<files, content, landed>>
       ELSE /\ files' = RenameEntry(files, w[p].temp, w[p].real)
            /\ w' = [w EXCEPT ![p].pc = "close_fp"]
            /\ content' = Reap(content, files', w')
            /\ landed' = Land(landed, w[p].real, p, w[p].src.data)
    /\ UNCHANGED <<dirs, started, nops, uuids, inp, out>>

\* close: return self.fp.close()
HCW_close_fp(p) ==
    /\ w[p].pc = "close_fp"
    /\ w' = [w EXCEPT ![p].src.closed = TRUE, ![p].pc = "done"]
    /\ UNCHANGED <<files, dirs, content, landed, started, nops, uuids, inp, out>>

\* The call is over (it returned or raised) and its locals are gone: a file
\* object left open is closed, and so flushed, when it is collected.
Return(p) ==
    /\ w[p].pc \in {"done", "failed"}
    /\ w' = [w EXCEPT ![p] = Idle]
    /\ content' = Reap(Flushed(content, w[p]), files, w')
    /\ UNCHANGED <<files, dirs, landed, started, nops, uuids, inp, out>>

\* A call has raised and its caller still holds the exception, whose
\* traceback refers to the wrapper: the wrapper's file object is collected,
\* and with that closed and flushed, at some later moment.
Collect(p) ==
    /\ w[p].pc = "failed"
    /\ w[p].fopen
    /\ w' = [w EXCEPT ![p] = Closed(w[p])]
    /\ content' = Reap(Flushed(content, w[p]), files, w')
    /\ UNCHANGED <<files, dirs, landed, started, nops, uuids, inp, out>>

----------------------------------------------------------------------------
(* LocalCDN.write_temp_file and upgrade_temp_file *)

\* the chunk sizes callers pass as buf_size: the default, and one byte at a time
BufSizes == {-1, 1}

\* a staging name that is the same for every call
TempFilePathFixed(n) == PathJoin(temp_dir, <<"staging">>)

\* temp_path = os.path.join(self.temp_dir, str(uuid4())): the n-th value
\* uuid4() returns differs from every other one
TempFilePath(n) == PathJoin(temp_dir, <<"uuid-" \o ToString(n)>>)

\* the payloads staged for promotion: caller p's bytes all read p, so that
\* two callers' files differ in every byte
PromoteData(p) == [i \in 1..MaxLen |-> p]

write_temp_file(p, src, buf_size) ==
    /\ w[p].pc = "idle"
    /\ nops < MaxOps
    /\ w' = [w EXCEPT ![p] =
                [Idle EXCEPT !.op = "write_temp_file", !.pc = "wtf_exists",
                             !.src = src, !.buf_size = buf_size,
                             !.temp = TempFilePath(uuids + 1),
                             !.pre = FileAt(files, content,
                                            TempFilePath(uuids + 1))]]
    /\ uuids' = uuids + 1
    /\ nops' = nops + 1
    /\ UNCHANGED <<files, dirs, content, landed, started, inp, out>>

\* if not os.path.exists(self.temp_dir)
WTF_exists(p) ==
    /\ w[p].pc = "wtf_exists"
    /\ LET missing == ~Exists(files, dirs, temp_dir)
       IN  w' = [w EXCEPT ![p].need_mk = missing,
                          ![p].pc = IF missing THEN "wtf_makedirs"
                                    ELSE "wtf_open"]
    /\ UNCHANGED <<files, dirs, content, landed, started, nops, uuids, inp, out>>

\* os.makedirs(self.temp_dir)
WTF_makedirs(p) ==
    /\ w[p].pc = "wtf_makedirs"
    /\ IF Exists(files, dirs, temp_dir)
       THEN /\ w' = Raise(p, "FileExistsError")
            /\ dirs' = dirs
       ELSE /\ w' = [w EXCEPT ![p].pc = "wtf_open"]
            /\ dirs' = dirs \cup DirChain(temp_dir)
    /\ UNCHANGED <<files, content, landed, started, nops, uuids, inp, out>>

\* with open(temp_path, "wb") as f
WTF_open(p) ==
    /\ w[p].pc = "wtf_open"
    /\ LET t == w[p].temp
           i == IF t \in DOMAIN files THEN files[t] ELSE FreshInode(content)
       IN  /\ files' = [q \in DOMAIN files \cup {t} |->
                            IF q = t THEN i ELSE files[q]]
           /\ content' = [j \in DOMAIN content \cup {i} |->
                            IF j = i THEN <<>> ELSE content[j]]
           /\ w' = [w EXCEPT ![p].fopen = TRUE, ![p].ino = i, ![p].off = 0,
                             ![p].pc = "wtf_read"]
    /\ UNCHANGED <<dirs, landed, started, nops, uuids, inp, out>>

\* fp.read() when buf_size < 0, else b = fp.read(buf_size) in the loop; an
\* exception leaves the with block, which closes f
WTF_read(p) ==
    /\ w[p].pc = "wtf_read"
    /\ IF SrcRaises(w[p].src, w[p].buf_size)
       THEN /\ w' = [Raise(p, "IOError") EXCEPT ![p] = Closed(@)]
            /\ content' = Reap(Flushed(content, w[p]), files, w')
       ELSE /\ \E n \in SrcReadLens(w[p].src, w[p].buf_size) :
                w' = [w EXCEPT ![p].b = SrcChunk(w[p].src, n),
                               ![p].src.pos = @ + n,
                               ![p].pc = IF w[p].buf_size >= 0 /\ n = 0
                                         THEN "wtf_close" ELSE "wtf_write"]
            /\ content' = content
    /\ UNCHANGED <<files, dirs, landed, started, nops, uuids, inp, out>>

\* f.write(fp.read()) when buf_size < 0, else f.write(b) in the loop
WTF_write(p) ==
    /\ w[p].pc = "wtf_write"
    /\ content' = FileWrite(content, w[p], w[p].b)
    /\ w' = [w EXCEPT ![p] = [Written(w[p], w[p].b) EXCEPT
                                !.pc = IF w[p].buf_size < 0 THEN "wtf_close"
                                       ELSE "wtf_read"]]
    /\ UNCHANGED <<files, dirs, landed, started, nops, uuids, inp, out>>

\* the with block ends and closes f; return temp_path
WTF_close(p) ==
    /\ w[p].pc = "wtf_close"
    /\ w' = [w EXCEPT ![p] = [Closed(w[p]) EXCEPT
                                !.ret = w[p].temp,
                                !.pc = IF w[p].op = "write_encrypted_file"
                                       THEN "wef_exists" ELSE "done"]]
    /\ content' = Reap(Flushed(content, w[p]), files, w')
    /\ UNCHANGED <<files, dirs, landed, started, nops, uuids, inp, out>>

\* the caller promotes the temp file write_temp_file returned to it
upgrade_temp_file(p, path) ==
    /\ w[p].op = "write_temp_file"
    /\ w[p].pc = "done"
    /\ w' = [w EXCEPT ![p].op = "upgrade_temp_file", ![p].pc = "utf_exists",
                      ![p].logical = path, ![p].real = get_full_path(path),
                      ![p].pre = FileAt(files, content, get_full_path(path))]
    /\ started' = started \cup {<<get_full_path(path), w[p].src.data>>}
    /\ UNCHANGED <<files, dirs, content, landed, nops, uuids, inp, out>>

\* if not os.path.exists(dirname)
UTF_exists(p) ==
    /\ w[p].pc = "utf_exists"
    /\ LET missing == ~Exists(files, dirs, DirName(w[p].real))
       IN  w' = [w EXCEPT ![p].need_mk = missing,
                          ![p].pc = IF missing THEN "utf_makedirs"
                                    ELSE "utf_rename"]
    /\ UNCHANGED <<files, dirs, content, landed, started, nops, uuids, inp, out>>

\* os.makedirs(dirname)
UTF_makedirs(p) ==
    /\ w[p].pc = "utf_makedirs"
    /\ LET d == DirName(w[p].real)
       IN  IF Exists(files, dirs, d)
           THEN /\ w' = Raise(p, "FileExistsError")
                /\ dirs' = dirs
           ELSE /\ w' = [w EXCEPT ![p].pc = "utf_rename"]
                /\ dirs' = dirs \cup DirChain(d)
    /\ UNCHANGED <<files, content, landed, started, nops, uuids, inp, out>>

\* os.rename(temp_path, path)
UTF_rename(p) ==
    /\ w[p].pc = "utf_rename"
    /\ IF w[p].temp \notin DOMAIN files
       THEN /\ w' = Raise(p, "FileNotFoundError")
            /\ UNCHANGED <<files, content, landed>>
       ELSE /\ files' = RenameEntry(files, w[p].temp, w[p].real)
            /\ w' = [w EXCEPT ![p].pc = "done"]
            /\ content' = Reap(content, files', w')
            /\ landed' = Land(landed, w[p].real, p, w[p].src.data)
    /\ UNCHANGED <<dirs, started, nops, uuids, inp, out>>

----------------------------------------------------------------------------
(* LocalCDN.write_encrypted_file *)

\* the object paths files are stored under
ObjectPaths == {<<SEP>> \o partition_hash(K1)}

\* temp_path = self.write_temp_file(fp, buf_size=buf_size), whose steps are
\* write_temp_file's; crypt_path = self.get_encrypted_path(path)
write_encrypted_file(p, src, path, buf_size) ==
    /\ w[p].pc = "idle"
    /\ nops < MaxOps
    /\ w' = [w EXCEPT ![p] =
                [Idle EXCEPT !.op = "write_encrypted_file", !.pc = "wtf_exists",
                             !.src = src, !.buf_size = buf_size,
                             !.temp = TempFilePath(uuids + 1),
                             !.logical = path,
                             !.real = get_encrypted_path(path),
                             !.pre = FileAt(files, content,
                                            get_encrypted_path(path))]]
    /\ uuids' = uuids + 1
    /\ nops' = nops + 1
    /\ started' = started \cup {<<get_encrypted_path(path), src.data>>}
    /\ UNCHANGED <<files, dirs, content, landed, inp, out>>

\* if not os.path.exists(dirname)
WEF_exists(p) ==
    /\ w[p].pc = "wef_exists"
    /\ LET missing == ~Exists(files, dirs, DirName(w[p].real))
       IN  w' = [w EXCEPT ![p].need_mk = missing,
                          ![p].pc = IF missing THEN "wef_makedirs"
                                    ELSE "wef_rename"]
    /\ UNCHANGED <<files, dirs, content, landed, started, nops, uuids, inp, out>>

\* os.makedirs(dirname)
WEF_makedirs(p) ==
    /\ w[p].pc = "wef_makedirs"
    /\ LET d == DirName(w[p].real)
       IN  IF Exists(files, dirs, d)
           THEN /\ w' = Raise(p, "FileExistsError")
                /\ dirs' = dirs
           ELSE /\ w' = [w EXCEPT ![p].pc = "wef_rename"]
                /\ dirs' = dirs \cup DirChain(d)
    /\ UNCHANGED <<files, content, landed, started, nops, uuids, inp, out>>

\* os.rename(temp_path, crypt_path)
WEF_rename(p) ==
    /\ w[p].pc = "wef_rename"
    /\ IF w[p].temp \notin DOMAIN files
       THEN /\ w' = Raise(p, "FileNotFoundError")
            /\ UNCHANGED <<files, content, landed>>
       ELSE /\ files' = RenameEntry(files, w[p].temp, w[p].real)
            /\ w' = [w EXCEPT ![p].pc = "done"]
            /\ content' = Reap(content, files', w')
            /\ landed' = Land(landed, w[p].real, p, w[p].src.data)
    /\ UNCHANGED <<dirs, started, nops, uuids, inp, out>>

WTF_step(p) ==
    \/ WTF_exists(p)
    \/ WTF_makedirs(p)
    \/ WTF_open(p)
    \/ WTF_read(p)
    \/ WTF_write(p)
    \/ WTF_close(p)

WEF_step(p) ==
    \/ WEF_exists(p)
    \/ WEF_makedirs(p)
    \/ WEF_rename(p)

----------------------------------------------------------------------------
(* BaseCDN: fetching and verifying *)

\* verify_data("patch index", data[-28:], key, verify)
FooterLen == 28

HexChars == <<"a", "b", "c", "d">>
KeyLen == 2 * PrefixWidth

RECURSIVE WeightedSum(_, _)
WeightedSum(data, i) ==
    IF i > Len(data) THEN 0 ELSE i * (data[i] + 1) + WeightedSum(data, i + 1)

\* the hex digest of data: a stand-in for the hash utils.verify_data takes,
\* a function of every byte and of its place, with collisions
HexDigest(data) ==
    LET h == (Len(data) + WeightedSum(data, 1)) % (2 ^ KeyLen)
    IN  [j \in 1..KeyLen |-> HexChars[((h \div (2 ^ (j - 1))) % 2) + 1]]

\* utils.verify_data(object_name, data, key, verify): TRUE when it returns,
\* FALSE when it raises IntegrityError
verify_data(data, key, verify) == ~verify \/ HexDigest(data) = key

\* data[start:] for a negative start
PySliceFrom(data, start) ==
    SubSeq(data, Max(Len(data) + start, 0) + 1, Len(data))

\* what a fetch gives: the exception it raised ("none": it returned), the
\* bytes it returned, and what it handed to the index parser
Returned(data) == [key |-> <<>>, data |-> data, verify |-> FALSE, exc |-> "none"]
Raised(e) == [key |-> <<>>, data |-> <<>>, verify |-> FALSE, exc |-> e]

\* with self.get_item(path) as resp: data = resp.read(), on a source whose
\* items are the function `items` from logical path to bytes
ReadAll(items, path) == IF path \in DOMAIN items THEN items[path] ELSE Absent

Checked(what, data, key, verify) ==
    IF data = Absent THEN Raised("NotFound")
    ELSE IF ~verify_data(what, key, verify) THEN Raised("IntegrityError")
    ELSE Returned(data)

\* a fetch_config that checks the footer only
fetch_config_footer(store, key, verify) ==
    LET data == ReadAll(store.items, get_config_path(key))
    IN  Checked(PySliceFrom(data, -FooterLen), data, key, verify)

fetch_config(store, key, verify) ==
    LET data == ReadAll(store.items, get_config_path(key))
    IN  Checked(data, data, key, verify)

fetch_config_data(store, key, verify) ==
    LET data == ReadAll(store.config_items, get_config_item_path(key))
    IN  Checked(data, data, key, verify)

\* a fetch_index that verifies like the other fetches
fetch_index_verified(store, key, verify) ==
    LET data == ReadAll(store.items, get_data_index_path(key))
    IN  Checked(data, data, key, verify)

fetch_index(store, key, verify) ==
    LET data == ReadAll(store.items, get_data_index_path(key))
    IN  IF data = Absent THEN Raised("NotFound") ELSE Returned(data)

fetch_patch(store, key, verify) ==
    LET data == ReadAll(store.items, get_patch_path(key))
    IN  Checked(data, data, key, verify)

\* a fetch_patch_index that checks the whole payload
fetch_patch_index_full(store, key, verify) ==
    LET data == ReadAll(store.items, get_patch_index_path(key))
    IN  Checked(data, data, key, verify)

fetch_patch_index(store, key, verify) ==
    LET data == ReadAll(store.items, get_patch_index_path(key))
    IN  Checked(PySliceFrom(data, -FooterLen), data, key, verify)

\* ArchiveIndex(self.fetch_index(key), key, verify=verify): the parser is
\* outside this layer; the outcome records what it is given
get_index(store, key, verify) ==
    LET r == fetch_index(store, key, FALSE)
    IN  IF r.exc # "none" THEN r
        ELSE [key |-> key, data |-> r.data, verify |-> verify, exc |-> "none"]

\* BaseCDN.download_data(key, verify): the stream get_item gives, recorded by
\* the bytes it holds
download_data(store, key, verify) ==
    LET data == ReadAll(store.items, get_data_path(key))
    IN  IF data = Absent THEN Raised("NotFound") ELSE Returned(data)

\* Inputs: a source holding one payload under one category's path for a key
Categories == {"config", "config_item", "data", "index", "patch", "patch_index"}

\* the categories with a fetch_* operation
FetchCategories == Categories \ {"data"}

CategoryPath(cat, key) ==
    CASE cat = "config" -> get_config_path(key)
      [] cat = "config_item" -> get_config_item_path(key)
      [] cat = "data" -> get_data_path(key)
      [] cat = "index" -> get_data_index_path(key)
      [] cat = "patch" -> get_patch_path(key)
      [] cat = "patch_index" -> get_patch_index_path(key)

StoreOf(cat, key, data) ==
    LET at == [q \in {CategoryPath(cat, key)} |-> data]
    IN  IF cat = "config_item" THEN [items |-> <<>>, config_items |-> at]
        ELSE [items |-> at, config_items |-> <<>>]

\* footers: FooterLen zero bytes, or the same with a single one in them
Footers ==
    {[i \in 1..FooterLen |-> IF i = j THEN 1 ELSE 0] : j \in 0..FooterLen}

\* payloads shorter than a footer, of just under a footer's length, and a
\* short prefix followed by a footer
FetchPayloads ==
    Payloads
        \cup {Tail(f) : f \in Footers}
        \cup {pre \o f : pre \in Payloads, f \in Footers}

FetchKeys == [1..KeyLen -> {HexChars[1], HexChars[2]}]

----------------------------------------------------------------------------
(* RemoteCDN._join_path, over urllib.parse.urljoin *)

\* the place of the first SEP of s at or after place i, Len(s) + 1 when none
FindSep(s, i) ==
    LET at == {j \in i..Len(s) : s[j] = SEP}
    IN  IF at = {} THEN Len(s) + 1 ELSE CHOOSE j \in at : \A k \in at : j <= k

RECURSIVE Split(_)
\* str.split("/")
Split(s) ==
    LET j == FindSep(s, 1)
    IN  IF j > Len(s) THEN <<s>>
        ELSE <<SubSeq(s, 1, j - 1)>> \o Split(SubSeq(s, j + 1, Len(s)))

RECURSIVE JoinSegs(_)
\* "/".join(segments)
JoinSegs(segs) ==
    IF segs = <<>> THEN <<>>
    ELSE IF Len(segs) = 1 THEN segs[1]
    ELSE segs[1] \o <<SEP>> \o JoinSegs(Tail(segs))

\* list(filter(None, segments)): the segments that are not empty
RECURSIVE NonEmpty(_)
NonEmpty(segs) ==
    IF segs = <<>> THEN <<>>
    ELSE IF Head(segs) = <<>> THEN NonEmpty(Tail(segs))
    ELSE <<Head(segs)>> \o NonEmpty(Tail(segs))

\* segments[1:-1] = filter(None, segments[1:-1])
FilterMiddle(segs) ==
    IF Len(segs) <= 2 THEN segs
    ELSE <<segs[1]>> \o NonEmpty(SubSeq(segs, 2, Len(segs) - 1))
             \o <<segs[Len(segs)]>>

DOT == <<".">>
DOTDOT == <<".", ".">>

RECURSIVE Resolve(_, _)
\* urljoin's loop over segments: ".." pops, "." is skipped
Resolve(segs, acc) ==
    IF segs = <<>> THEN acc
    ELSE IF Head(segs) = DOTDOT
         THEN Resolve(Tail(segs),
                      IF acc = <<>> THEN acc ELSE SubSeq(acc, 1, Len(acc) - 1))
    ELSE IF Head(segs) = DOT THEN Resolve(Tail(segs), acc)
    ELSE Resolve(Tail(segs), Append(acc, Head(segs)))

\* urlsplit(url) of a url with no scheme, query or fragment: "//" opens a
\* network location, which runs to the next "/"
UrlSplit(url) ==
    IF Len(url) >= 2 /\ url[1] = SEP /\ url[2] = SEP
    THEN LET j == FindSep(url, 3)
         IN  [netloc |-> SubSeq(url, 3, j - 1), path |-> SubSeq(url, j, Len(url))]
    ELSE [netloc |-> <<>>, path |-> url]

\* urlunsplit(("", netloc, url, "", ""))
UrlUnsplit(netloc, url) ==
    IF netloc # <<>>
    THEN <<SEP, SEP>> \o netloc
             \o (IF url # <<>> /\ url[1] # SEP THEN <<SEP>> \o url ELSE url)
    ELSE url

\* urllib.parse.urljoin(base, url)
urljoin(base, url) ==
    IF base = <<>> THEN url
    ELSE IF url = <<>> THEN base
    ELSE LET b == UrlSplit(base)
             u == UrlSplit(url)
         IN  IF u.netloc # <<>> THEN UrlUnsplit(u.netloc, u.path)
             ELSE IF u.path = <<>> THEN UrlUnsplit(b.netloc, b.path)
             ELSE LET parts == Split(b.path)
                      base_parts == IF parts[Len(parts)] # <<>>
                                    THEN SubSeq(parts, 1, Len(parts) - 1)
                                    ELSE parts
                      segments == IF u.path[1] = SEP THEN Split(u.path)
                                  ELSE FilterMiddle(base_parts \o Split(u.path))
                      last == segments[Len(segments)]
                      resolved == Resolve(segments, <<>>)
                                      \o (IF last \in {DOT, DOTDOT}
                                          THEN <<(<<>>)>> ELSE <<>>)
                      joined == JoinSegs(resolved)
                  IN  UrlUnsplit(b.netloc,
                                 IF joined = <<>> THEN <<SEP>> ELSE joined)

\* a join that hands both paths to urljoin as they are
JoinPathPlain(base_path, path) == urljoin(base_path, path)

\* return urljoin(base_path + "/", path.lstrip("/"))
_join_path(base_path, path) == urljoin(base_path \o <<SEP>>, LStrip(path, SEP))

----------------------------------------------------------------------------
(* RemoteCDN: requests *)

\* if ret.status_code != 200
StatusOK == 200

\* the status codes a server answers with
Statuses == {StatusOK, 404, 503}

\* RemoteCDN(server, path, config_path): the server is given as a network
\* location with no scheme
server == <<SEP, SEP, "host">>
remote_path == <<SEP, "tpr", SEP, "game">>
config_path == <<"tpr", SEP, "configs", SEP, "data">>

\* The network: the statuses the server answers successive GETs with, and
\* the URLs requested so far.
Network(replies) == [replies |-> replies, sent |-> <<>>]

\* requests.get(url, stream=True)
RequestsGet(net, url) ==
    [net |-> [net EXCEPT !.sent = Append(@, url)],
     status |-> net.replies[Len(net.sent) + 1]]

\* what a remote call gives: the network after it, the exception it raised
\* ("none": it returned), the status and URL it reports, the stream returned
RemoteResult(net, exc, status, url, stream) ==
    [exc |-> exc, url |-> url, net |-> net, status |-> status,
     stream |-> stream]

\* a get_response that asks once more when the status is not 200
get_response_retry(net, path) ==
    LET url == urljoin(server, path)
        r1 == RequestsGet(net, url)
        r == IF r1.status # StatusOK THEN RequestsGet(r1.net, url) ELSE r1
    IN  IF r.status # StatusOK
        THEN RemoteResult(r.net, "NetworkError", r.status, url, "none")
        ELSE RemoteResult(r.net, "none", r.status, url, "raw")

\* RemoteCDN.get_response(path)
get_response(net, path) ==
    LET url == urljoin(server, path)
        r == RequestsGet(net, url)
    IN  IF r.status # StatusOK
        THEN RemoteResult(r.net, "NetworkError", r.status, url, "none")
        ELSE RemoteResult(r.net, "none", r.status, url, "raw")

\* RemoteCDN.get_item(path): the raw stream, inside a progress bar when the
\* response tells its length and with_tqdm is set
RemoteGetItem(net, path, with_tqdm, content_length) ==
    LET resp == get_response(net, _join_path(remote_path, path))
    IN  IF resp.exc # "none" THEN resp
        ELSE IF content_length # 0 /\ with_tqdm
             THEN [resp EXCEPT !.stream = "TqdmReadable"]
             ELSE resp

\* RemoteCDN.get_config_item(path)
RemoteGetConfigItem(net, path) ==
    get_response(net, _join_path(config_path, path))

----------------------------------------------------------------------------
(* Specifications *)

\* LocalCDN.__init__ stores its four directories and creates nothing
InitFS(ds) ==
    /\ files = <<>>
    /\ content = <<>>
    /\ dirs = ds
    /\ w = [p \in Procs |-> Idle]
    /\ landed = <<>>
    /\ started = {}
    /\ nops = 0
    /\ uuids = 0

Init ==
    /\ InitFS({<<SEP>>})
    /\ inp = NoInput
    /\ out = NoCall

HCW_step(p) ==
    \/ HCW_exists(p)
    \/ HCW_makedirs(p)
    \/ HCW_open(p)
    \/ HCW_read(p)
    \/ HCW_write(p)
    \/ HCW_close_cache(p)
    \/ HCW_rename(p)
    \/ HCW_close_fp(p)
    \/ Return(p)

\* callers run concurrently, each step of each call interleaved with the others
Next ==
    \E p \in Procs :
        \/ \E lp \in ItemPaths, src \in Sources : save_item(p, lp, src)
        \/ \E lp \in ConfigItemPaths, src \in Sources : save_config_item(p, lp, src)
        \/ HCW_step(p)

Spec == Init /\ [][Next]_vars

\* concurrent promotion: each caller stages a source with write_temp_file and
\* promotes the file it got with upgrade_temp_file
PromotePaths == {get_data_path(K1)}

PromoteSource(p) ==
    [data |-> PromoteData(p), small |-> FALSE, pos |-> 0, failAt |-> -1,
     closed |-> FALSE]

NextPromote ==
    \E p \in Procs :
        \/ \E bs \in BufSizes : write_temp_file(p, PromoteSource(p), bs)
        \/ WTF_exists(p)
        \/ WTF_makedirs(p)
        \/ WTF_open(p)
        \/ WTF_read(p)
        \/ WTF_write(p)
        \/ WTF_close(p)
        \/ \E lp \in PromotePaths : upgrade_temp_file(p, lp)
        \/ UTF_exists(p)
        \/ UTF_makedirs(p)
        \/ UTF_rename(p)
        \/ Return(p)

\* the temp directory and the cache tree may be there already, from earlier
\* runs of the program
InitPromote ==
    /\ \E made \in {{}, DirChain(temp_dir)
                          \cup UNION {DirChain(DirName(get_full_path(lp))) :
                                          lp \in PromotePaths}} :
            InitFS({<<SEP>>} \cup made)
    /\ inp = NoInput
    /\ out = NoCall

SpecPromote == InitPromote /\ [][NextPromote]_vars

\* one call at a time: a call starts only when no other is in progress
SeqCaller == CHOOSE p \in Procs : TRUE
SeqItemPaths == {get_data_path(K1)}

NextSeq ==
    \/ \E lp \in SeqItemPaths, src \in Sources : save_item(SeqCaller, lp, src)
    \/ \E lp \in ConfigItemPaths, src \in Sources :
            save_config_item(SeqCaller, lp, src)
    \/ HCW_step(SeqCaller)

SpecSeq == Init /\ [][NextSeq]_vars

\* _join_path applied to drawn inputs
MaxBaseLen == 5
MaxRelLen == 3
Strings(alphabet, n) == UNION {[1..k -> alphabet] : k \in 0..n}
JoinBases == Strings({SEP, "foo", "bar"}, MaxBaseLen)
JoinPaths == Strings({SEP, ".", "baz"}, MaxRelLen)

InitJoin ==
    /\ InitFS({<<SEP>>})
    /\ \E base \in JoinBases, path \in JoinPaths :
            inp = [kind |-> "join", path |-> path, base |-> base]
    /\ out = NoCall

join_path ==
    /\ inp.kind = "join"
    /\ out = NoCall
    /\ out' = [op |-> "_join_path", res |-> _join_path(inp.base, inp.path)]
    /\ UNCHANGED <<files, dirs, content, w, landed, started, nops, uuids, inp>>

NextJoin == join_path

SpecJoin == InitJoin /\ [][NextJoin]_vars

\* a fetch applied to drawn inputs
InitFetch ==
    /\ InitFS({<<SEP>>})
    /\ \E cat \in FetchCategories, key \in FetchKeys, data \in FetchPayloads,
          verify \in BOOLEAN :
            inp = [kind |-> "fetch", key |-> key, data |-> data,
                   verify |-> verify, store |-> StoreOf(cat, key, data),
                   cat |-> cat]
    /\ out = NoCall

Fetch(opname, res) ==
    /\ inp.kind = "fetch"
    /\ out = NoCall
    /\ out' = [op |-> opname, res |-> res]
    /\ UNCHANGED <<files, dirs, content, w, landed, started, nops, uuids, inp>>

NextFetch ==
    \/ Fetch("fetch_config", fetch_config(inp.store, inp.key, inp.verify))
    \/ Fetch("fetch_config_data", fetch_config_data(inp.store, inp.key, inp.verify))
    \/ Fetch("fetch_index", fetch_index(inp.store, inp.key, inp.verify))
    \/ Fetch("fetch_patch", fetch_patch(inp.store, inp.key, inp.verify))
    \/ Fetch("fetch_patch_index", fetch_patch_index(inp.store, inp.key, inp.verify))
    \/ Fetch("get_index", get_index(inp.store, inp.key, inp.verify))

SpecFetch == InitFetch /\ [][NextFetch]_vars

\* download_data applied to drawn inputs
InitDownload ==
    /\ InitFS({<<SEP>>})
    /\ \E key \in FetchKeys, data \in FetchPayloads, verify \in BOOLEAN :
            inp = [kind |-> "fetch", key |-> key, data |-> data,
                   verify |-> verify, store |-> StoreOf("data", key, data),
                   cat |-> "data"]
    /\ out = NoCall

NextDownload ==
    Fetch("download_data", download_data(inp.store, inp.key, inp.verify))

SpecDownload == InitDownload /\ [][NextDownload]_vars

\* the content categories, written by every writer, one call at a time, and
\* checked with has_*
K2 == <<"a", "b", "b", "a">>
HasKeys == {K1, K2}
HasItemPaths == {CategoryPath(cat, K1) : cat \in Categories \ {"config_item"}}
HasSources == SourcesOf({<<1>>}, FALSE)

NextHas ==
    \E p \in {SeqCaller} :
        \/ \E lp \in HasItemPaths, src \in HasSources : save_item(p, lp, src)
        \/ \E lp \in ConfigItemPaths, src \in HasSources :
                save_config_item(p, lp, src)
        \/ HCW_step(p)
        \/ \E src \in HasSources, bs \in BufSizes : write_temp_file(p, src, bs)
        \/ WTF_exists(p)
        \/ WTF_makedirs(p)
        \/ WTF_open(p)
        \/ WTF_read(p)
        \/ WTF_write(p)
        \/ WTF_close(p)
        \/ \E lp \in HasItemPaths : upgrade_temp_file(p, lp)
        \/ UTF_exists(p)
        \/ UTF_makedirs(p)
        \/ UTF_rename(p)

SpecHas == Init /\ [][NextHas]_vars

\* every writer of the layer, callers running concurrently
AllSources == SourcesOf({<<1>>}, FALSE)

\* two callers
Pair == {p \in Procs : p <= 2}

NextAll ==
    \E p \in Pair :
        \/ \E lp \in SeqItemPaths, src \in AllSources : save_item(p, lp, src)
        \/ \E lp \in ConfigItemPaths, src \in AllSources :
                save_config_item(p, lp, src)
        \/ HCW_step(p)
        \/ \E src \in AllSources, bs \in BufSizes : write_temp_file(p, src, bs)
        \/ WTF_step(p)
        \/ \E lp \in SeqItemPaths : upgrade_temp_file(p, lp)
        \/ UTF_exists(p)
        \/ UTF_makedirs(p)
        \/ UTF_rename(p)
        \/ \E lp \in ObjectPaths, src \in AllSources, bs \in BufSizes :
                write_encrypted_file(p, src, lp, bs)
        \/ WEF_step(p)

SpecAll == Init /\ [][NextAll]_vars

\* a consumer reading through one wrapper; close(), once called, runs on
CloseSteps(p) ==
    \/ HCW_read(p)
    \/ HCW_write(p)
    \/ HCW_close_cache(p)
    \/ HCW_rename(p)
    \/ HCW_close_fp(p)

NextMirror ==
    \/ \E lp \in SeqItemPaths, src \in Sources \cup SmallSources :
            HTTPCacheWrapper(SeqCaller, lp, src)
    \/ HCW_exists(SeqCaller)
    \/ HCW_makedirs(SeqCaller)
    \/ HCW_open(SeqCaller)
    \/ \E size \in ReadSizes : read(SeqCaller, size)
    \/ close(SeqCaller)
    \/ CloseSteps(SeqCaller)

SpecMirror == Init /\ [][NextMirror]_vars /\ WF_vars(CloseSteps(SeqCaller))

\* staging and storing with every kind of chunk size, one call at a time
ChunkArgs == {-1, 0, 1, 2}

NextTemp ==
    \/ \E src \in Sources \cup SmallSources, bs \in ChunkArgs :
            write_temp_file(SeqCaller, src, bs)
    \/ WTF_step(SeqCaller)
    \/ \E lp \in ObjectPaths, src \in Sources \cup SmallSources,
          bs \in ChunkArgs : write_encrypted_file(SeqCaller, src, lp, bs)
    \/ WEF_step(SeqCaller)
    \/ Return(SeqCaller)

SpecTemp == Init /\ [][NextTemp]_vars

\* concurrent writers of the encrypted-object store, on one object path
EncSources == SourcesOf({<<1>>, <<0, 1>>}, FALSE)

NextEncrypt ==
    \E p \in Pair :
        \/ \E lp \in ObjectPaths, src \in EncSources, bs \in ChunkArgs :
                write_encrypted_file(p, src, lp, bs)
        \/ WTF_step(p)
        \/ WEF_step(p)
        \/ Return(p)

SpecEncrypt == Init /\ [][NextEncrypt]_vars

\* saves that do not overlap: a call starts only when none is running, while
\* what an earlier call that failed left behind may still be there
NoCallRunning == \A q \in Procs : w[q].pc \in {"idle", "done", "failed"}

NextRetry ==
    \E p \in Pair :
        \/ /\ NoCallRunning
           /\ \E lp \in SeqItemPaths, src \in Sources \cup SmallSources :
                    save_item(p, lp, src)
        \/ HCW_step(p)
        \/ Collect(p)

SpecRetry == Init /\ [][NextRetry]_vars

\* a remote call applied to drawn inputs: a logical path, the server's
\* answers, and whether a progress bar is wanted and the length is known
MaxReplies == 2
ContentLengths == {0, 5}

InitRemote ==
    /\ InitFS({<<SEP>>})
    /\ \E cat \in Categories, replies \in [1..MaxReplies -> Statuses],
          with_tqdm \in BOOLEAN, content_length \in ContentLengths :
            inp = [kind |-> "remote", path |-> CategoryPath(cat, K1),
                   net |-> Network(replies), with_tqdm |-> with_tqdm,
                   content_length |-> content_length]
    /\ out = NoCall

Remote(opname, res) ==
    /\ inp.kind = "remote"
    /\ out = NoCall
    /\ out' = [op |-> opname, res |-> res]
    /\ UNCHANGED <<files, dirs, content, w, landed, started, nops, uuids, inp>>

NextRemote ==
    \/ Remote("get_response", get_response(inp.net, inp.path))
    \/ Remote("get_item",
              RemoteGetItem(inp.net, inp.path, inp.with_tqdm, inp.content_length))
    \/ Remote("get_config_item", RemoteGetConfigItem(inp.net, inp.path))

SpecRemote == InitRemote /\ [][NextRemote]_vars

----------------------------------------------------------------------------
(* Claims about the Atomic Cache Writer *)

Saving(p) == w[p].op \in {"save_item", "save_config_item"}
Ended(p) == w[p].pc \in {"done", "failed"}

\* C1: a save_item / save_config_item whose source raises after delivering a
\* proper prefix leaves the target as it was before the write (absent, or
\* its earlier bytes), at every step of the write and after it failed.
C1_NoPartialFile ==
    \A p \in Procs :
        (Saving(p) /\ w[p].src.failAt >= 0)
            => FileAt(files, content, w[p].real) = w[p].pre

\* a write failed mid-stream, after some bytes, over a target that had content
C1_Witness ==
    \E p \in Procs :
        /\ Saving(p) /\ w[p].pc = "failed" /\ w[p].err = "IOError"
        /\ w[p].src.pos > 0
        /\ w[p].pre \notin {Absent, <<>>}
        /\ w[p].temp \in DOMAIN files

\* C2: with concurrent writers on one target, the file visible at the target
\* is always absent or one writer's complete payload, and once every writer
\* has finished it is the payload of the writer whose rename landed last.
C2_WritersNeverCorrupt ==
    /\ \A pd \in started :
          FileAt(files, content, pd[1])
              \in {Absent} \cup {qd[2] : qd \in {x \in started : x[1] = pd[1]}}
    /\ (\A p \in Procs : w[p].pc \in {"idle", "done", "failed"})
          => \A path \in DOMAIN landed :
                FileAt(files, content, path) = landed[path].data

\* C3: no two writers in flight hold the same temporary path open.
C3_TempExclusive ==
    \A p, q \in Procs :
        (p # q /\ w[p].fopen /\ w[q].fopen) => w[p].temp # w[q].temp

\* C5: once save_item (save_config_item) of payload C on a logical path has
\* returned, get_item (get_config_item) on that path reads exactly C.
C5_RoundTrip ==
    \A p \in Procs :
        w[p].pc = "done" =>
            /\ w[p].op = "save_item"
                  => get_item(files, content, w[p].logical) = w[p].src.data
            /\ w[p].op = "save_config_item"
                  => get_config_item(files, content, w[p].logical) = w[p].src.data

\* a payload of several bytes was saved over different earlier content
C5_Witness ==
    \E p \in Procs :
        /\ w[p].pc = "done" /\ w[p].op = "save_item"
        /\ Len(w[p].src.data) >= 2
        /\ w[p].pre \notin {Absent, w[p].src.data}
        /\ get_item(files, content, w[p].logical) = w[p].src.data

\* C6: when a writer operation has ended, by success or by failure, the
\* temp-file handle and the source handle are both closed.
C6_ResourcesReleased ==
    \A p \in Procs :
        (Saving(p) /\ Ended(p)) => (~w[p].fopen /\ w[p].src.closed)

\* caller p's writer renames its temporary path onto its target in this step
Renames(p) == Saving(p) /\ w[p].pc = "rename" /\ w'[p].pc = "close_fp"

\* the order of one writer's steps, as a state predicate: the rename comes
\* after the source was read to its end and the temporary file closed, the
\* source is closed after the rename, and a write that succeeded leaves no
\* file at its temporary path
WriterOrder(p) ==
    /\ w[p].pc \in {"rename", "close_fp", "done"}
          => ~w[p].fopen /\ w[p].src.pos = Len(w[p].src.data)
    /\ w[p].src.closed => w[p].pc = "done"
    /\ w[p].pc \in {"close_fp", "done"} => w[p].temp \notin DOMAIN files

\* C14: in every execution of the writer, the rename comes only after the
\* source is exhausted and the temporary file closed, the source is closed
\* after the rename, no file is left at the temporary path of a write that
\* succeeded, and what is visible at a target path changes in a rename to
\* that path and in no other step.
C14_StepOrdering ==
    /\ [](\A p \in Procs : Saving(p) => WriterOrder(p))
    /\ [][\A pd \in started :
            FileAt(files, content, pd[1]) # FileAt(files', content', pd[1])
                => \E p \in Procs : Renames(p) /\ w[p].real = pd[1]]_vars

Wrapping(p) == w[p].op = "HTTPCacheWrapper"
Closing(p) ==
    Wrapping(p) /\ w[p].pc \in {"read", "write", "close_cache", "rename", "close_fp"}

\* what the wrapper of caller p has written to its temporary file, the
\* bytes still in the file object's buffer included
Mirrored(p) == Flushed(content, w[p])[w[p].ino]

\* every byte the source has returned is in the temporary file, once and in
\* order (the chunk just read is written in the next step), the consumer got
\* the bytes it read, and the file promoted is the source's content
MirrorInv(p) ==
    /\ w[p].fopen =>
          /\ Mirrored(p) = SubSeq(w[p].src.data, 1, w[p].off)
          /\ w[p].src.pos = w[p].off + (IF w[p].pc = "write" THEN Len(w[p].b) ELSE 0)
    /\ w[p].got = SubSeq(w[p].src.data, 1, Len(w[p].got))
    /\ w[p].pc \in {"close_fp", "done"}
          => FileAt(files, content, w[p].real) = w[p].src.data

\* C15: whatever reads a consumer makes through the wrapper before close(),
\* each byte the source returns is written to the temporary file once and in
\* order, close() drains the rest in chunks of 8192 bytes and terminates, and
\* the file promoted to the target equals the source's content.
C15_MirroredReads ==
    /\ [](\A p \in Procs : Wrapping(p) => MirrorInv(p))
    /\ \A p \in Procs : Closing(p) ~> (w[p].pc \in {"done", "failed"})

\* the consumer read the first byte, close() drained the second, and the
\* file promoted holds both
C15_Witness ==
    \E p \in Procs :
        /\ Wrapping(p) /\ w[p].pc = "done"
        /\ Len(w[p].src.data) = 2 /\ Len(w[p].got) = 1
        /\ FileAt(files, content, w[p].real) = w[p].src.data

\* caller p's save_item failed mid-stream on a target that was absent, and
\* caller q's save_item on the same target, begun after it, has succeeded
FailedThenSaved(p, q) ==
    /\ p # q
    /\ w[p].op = "save_item" /\ w[p].pc = "failed" /\ w[p].err = "IOError"
    /\ w[p].pre = Absent
    /\ w[q].op = "save_item" /\ w[q].pc = "done"
    /\ w[q].real = w[p].real

\* C20: when a save_item has failed mid-stream and a later save_item on the
\* same path, not overlapping it, has run to completion, the file at the
\* path is the later payload exactly and no file is at the temporary path.
C20_Recovery ==
    \A p, q \in Procs :
        FailedThenSaved(p, q)
            => /\ FileAt(files, content, w[q].real) = w[q].src.data
               /\ TempPath(w[q].real) \notin DOMAIN files

----------------------------------------------------------------------------
(* Claims about promotion *)

Promoted(p) == w[p].op = "upgrade_temp_file" /\ Ended(p)

\* callers p and q each staged one temp file and promoted it to one and the
\* same final path, and nothing else was written
TwoPromotions(p, q) ==
    /\ p # q
    /\ Promoted(p) /\ Promoted(q)
    /\ w[p].real = w[q].real
    /\ w[p].src.data # w[q].src.data
    /\ uuids = 2

\* C4: when two callers have promoted two different, fully written temp
\* files to the same final path, in any interleaving of their steps, a file
\* exists at that path and its bytes are exactly those of one of the two
\* temp files.
C4_ConcurrentPromotion ==
    \A p, q \in Procs :
        TwoPromotions(p, q)
            => FileAt(files, content, w[p].real)
                   \in {w[p].src.data, w[q].src.data}

\* two promotions to one path ended, the second rename replacing the first
C4_Witness ==
    \E p, q \in Procs :
        /\ TwoPromotions(p, q)
        /\ w[p].err = "none" /\ w[q].err = "none"
        /\ w[q].pre = w[p].src.data
        /\ FileAt(files, content, w[p].real) = w[q].src.data

\* C16: whatever the chunk size (negative: one read; zero or more: reads of
\* that size), a write_temp_file that has returned gave the path of a file
\* under the temp root that was not there before and now holds the source's
\* content exactly, and a write_encrypted_file that has returned has put a
\* file equal to the source's content at the object path.
C16_WholeSourceCopied ==
    \A p \in Procs :
        /\ (w[p].op = "write_temp_file" /\ w[p].pc = "done")
              => /\ DirName(w[p].ret) = temp_dir
                 /\ w[p].pre = Absent
                 /\ FileAt(files, content, w[p].ret) = w[p].src.data
        /\ (w[p].op = "write_encrypted_file" /\ w[p].pc = "done")
              => FileAt(files, content, w[p].real) = w[p].src.data

\* the complete contents of the sources written to the real path so far
SourcesFor(path) == {pd[2] : pd \in {x \in started : x[1] = path}}

\* C18: at every moment, has_encrypted_file on an object path is true only
\* if the file there is the complete content of one of the sources written
\* to it, and what is at the object path changes in a writer's rename and in
\* no other step, so that a write that fails leaves it as it was.
C18_EncryptedAtomic ==
    /\ [](\A lp \in ObjectPaths :
            has_encrypted_file(files, dirs, lp)
                => FileAt(files, content, get_encrypted_path(lp))
                       \in SourcesFor(get_encrypted_path(lp)))
    /\ [][\A lp \in ObjectPaths :
            FileAt(files, content, get_encrypted_path(lp))
                    # FileAt(files', content', get_encrypted_path(lp))
                => \E p \in Procs : /\ w[p].pc = "wef_rename"
                                     /\ w'[p].pc = "done"
                                     /\ w[p].real = get_encrypted_path(lp)]_vars

----------------------------------------------------------------------------
(* Claims about fetching and verifying *)

\* the operation the source's payload is stored for
Hit(opname, cat) == out.op = opname /\ inp.cat = cat

FullyVerified ==
    \/ Hit("fetch_config", "config")
    \/ Hit("fetch_patch", "patch")
    \/ Hit("fetch_config_data", "config_item")

\* C7: fetch_config, fetch_patch and fetch_config_data with verify raise
\* IntegrityError exactly when the hash of the whole payload differs from the
\* key, and otherwise, and always without verify, return the payload as is.
C7_FullHash ==
    FullyVerified =>
        IF inp.verify /\ HexDigest(inp.data) # inp.key
        THEN out.res.exc = "IntegrityError"
        ELSE out.res.exc = "none" /\ out.res.data = inp.data

\* a payload longer than a footer, whose footer alone hashes to the key, was
\* rejected
C7_Witness ==
    /\ FullyVerified
    /\ out.res.exc = "IntegrityError"
    /\ Len(inp.data) > FooterLen
    /\ HexDigest(SubSeq(inp.data, Len(inp.data) - FooterLen + 1, Len(inp.data)))
          = inp.key

\* the last n bytes of d, all of d when it is shorter
LastBytes(d, n) == [i \in 1..Min(n, Len(d)) |-> d[Len(d) - Min(n, Len(d)) + i]]

\* C8: fetch_patch_index with verify raises IntegrityError exactly when the
\* hash of the payload's last 28 bytes (of the whole payload, when shorter)
\* differs from the key, so payloads sharing their last 28 bytes share the
\* outcome; without verify it returns the payload.
C8_FooterOnly ==
    Hit("fetch_patch_index", "patch_index") =>
        /\ IF inp.verify /\ HexDigest(LastBytes(inp.data, FooterLen)) # inp.key
           THEN out.res.exc = "IntegrityError"
           ELSE out.res.exc = "none" /\ out.res.data = inp.data
        /\ \A d \in FetchPayloads :
              LastBytes(d, FooterLen) = LastBytes(inp.data, FooterLen)
                  => fetch_patch_index(StoreOf("patch_index", inp.key, d),
                                       inp.key, inp.verify).exc = out.res.exc

\* a payload whose whole hash differs from the key passed on its footer
C8_Witness ==
    /\ Hit("fetch_patch_index", "patch_index")
    /\ inp.verify
    /\ out.res.exc = "none"
    /\ Len(inp.data) > FooterLen
    /\ HexDigest(inp.data) # inp.key

\* C9: fetch_index returns the payload at the data-index path whatever verify
\* and the payload are, and get_index hands the parser those bytes, the key
\* and the verify flag, neither raising IntegrityError.
C9_IndexNeverVerified ==
    /\ out.op \in {"fetch_index", "get_index"} => out.res.exc # "IntegrityError"
    /\ Hit("fetch_index", "index")
          => out.res.exc = "none" /\ out.res.data = inp.data
    /\ Hit("get_index", "index")
          => /\ out.res.exc = "none" /\ out.res.data = inp.data
             /\ out.res.key = inp.key /\ out.res.verify = inp.verify

\* fetch_index returned a payload that does not hash to the key, verify set
C9_Witness ==
    /\ Hit("fetch_index", "index")
    /\ inp.verify
    /\ HexDigest(inp.data) # inp.key
    /\ out.res.data = inp.data

\* C19: download_data with verify raises IntegrityError when the hash of the
\* whole payload differs from the key, and otherwise, and always without
\* verify, gives the payload.
C19_DataFullHash ==
    Hit("download_data", "data") =>
        IF inp.verify /\ HexDigest(inp.data) # inp.key
        THEN out.res.exc = "IntegrityError"
        ELSE out.res.exc = "none" /\ out.res.data = inp.data

----------------------------------------------------------------------------
(* Claims about remote path joining *)

FooBar == <<SEP, "foo", SEP, "bar">>
FooBarSlash == <<SEP, "foo", SEP, "bar", SEP>>
Baz == <<"baz">>
SlashBaz == <<SEP, "baz">>

Joined(base, path, res) ==
    (out.op = "_join_path" /\ inp.base = base /\ inp.path = path)
        => out.res = res

\* C10 as the specification states it: with base /foo/bar, joining /baz
\* gives /baz and joining baz gives /foo/baz; with base /foo/bar/, joining baz
\* gives /foo/bar/baz.
C10_AsStated ==
    /\ Joined(FooBar, SlashBaz, <<SEP, "baz">>)
    /\ Joined(FooBar, Baz, <<SEP, "foo", SEP, "baz">>)
    /\ Joined(FooBarSlash, Baz, <<SEP, "foo", SEP, "bar", SEP, "baz">>)

\* C10, amended: the relative path is appended to the base in all three
\* cases: /foo/bar with /baz, /foo/bar with baz and /foo/bar/ with baz all
\* give /foo/bar/baz.
C10_JoinAppends ==
    /\ Joined(FooBar, SlashBaz, <<SEP, "foo", SEP, "bar", SEP, "baz">>)
    /\ Joined(FooBar, Baz, <<SEP, "foo", SEP, "bar", SEP, "baz">>)
    /\ Joined(FooBarSlash, Baz, <<SEP, "foo", SEP, "bar", SEP, "baz">>)

\* /foo/bar was joined with /baz
C10_Witness ==
    /\ out.op = "_join_path"
    /\ inp.base = FooBar /\ inp.path = SlashBaz
    /\ out.res = <<SEP, "foo", SEP, "bar", SEP, "baz">>

\* C17: when concurrent writers need a parent directory that is missing,
\* every one of them goes on to its write or rename: none fails in
\* os.makedirs because another writer made the directory first.
C17_DirsOnDemand ==
    \A p \in Procs : ~(w[p].pc = "failed" /\ w[p].err = "FileExistsError")

----------------------------------------------------------------------------
(* Claims about remote requests *)

RemoteCall == out.op \in {"get_response", "get_item", "get_config_item"}

\* C11: a get_response, get_item or get_config_item call sends exactly one
\* GET; when the status of the answer is not 200 it raises NetworkError,
\* naming that status and the URL requested, without asking again, and when
\* it is 200 it returns the response's stream.
C11_NoRetry ==
    RemoteCall =>
        /\ Len(out.res.net.sent) = 1
        /\ out.res.url = out.res.net.sent[1]
        /\ out.res.status = inp.net.replies[1]
        /\ IF inp.net.replies[1] # StatusOK
           THEN out.res.exc = "NetworkError"
           ELSE out.res.exc = "none" /\ out.res.stream # "none"

\* the server would have answered 200 to a second request, and none was sent
C11_Witness ==
    /\ out.op = "get_item"
    /\ inp.net.replies[1] = 503 /\ inp.net.replies[2] = StatusOK
    /\ out.res.exc = "NetworkError"
    /\ Len(out.res.net.sent) = 1

----------------------------------------------------------------------------
(* Claims about the existence checks *)

Has(cat, key) ==
    CASE cat = "config" -> has_config(files, dirs, key)
      [] cat = "config_item" -> has_config_item(files, dirs, key)
      [] cat = "data" -> has_data(files, dirs, key)
      [] cat = "index" -> has_index(files, dirs, key)
      [] cat = "patch" -> has_patch(files, dirs, key)
      [] cat = "patch_index" -> has_patch_index(files, dirs, key)

\* what the category's read gives for the key
ReadOf(cat, key) ==
    IF cat = "config_item"
    THEN get_config_item(files, content, get_config_item_path(key))
    ELSE get_item(files, content, CategoryPath(cat, key))

\* the path the writers write the category's logical path of the key to
WrittenPath(cat, key) ==
    IF cat = "config_item" THEN LocalConfigPath(get_config_item_path(key))
    ELSE get_full_path(CategoryPath(cat, key))

SavedTo(p, path) ==
    /\ w[p].op \in {"save_item", "save_config_item", "upgrade_temp_file"}
    /\ w[p].pc = "done"
    /\ w[p].real = path

\* C12: for every key and category, has_<category>(key) is true exactly when
\* the category's read finds a file; it is true once a save_item,
\* save_config_item or upgrade_temp_file on the category's path has
\* succeeded, and false as long as no write has landed there.
C12_LockStep ==
    \A cat \in Categories, key \in HasKeys :
        /\ Has(cat, key) <=> ReadOf(cat, key) # Absent
        /\ (\E p \in Procs : SavedTo(p, WrittenPath(cat, key))) => Has(cat, key)
        /\ WrittenPath(cat, key) \notin DOMAIN landed => ~Has(cat, key)

\* a config item was saved for one key and a data file promoted for it, and
\* the checks tell them from the categories and the key nothing was saved for
C12_Witness ==
    /\ WrittenPath("config_item", K1) \in DOMAIN landed
    /\ \E p \in Procs : w[p].op = "upgrade_temp_file"
                            /\ SavedTo(p, WrittenPath("data", K1))
    /\ Has("config_item", K1) /\ Has("data", K1)
    /\ ~Has("config", K1) /\ ~Has("config_item", K2) /\ ~Has("data", K2)

----------------------------------------------------------------------------
(* Claims about the cache as a whole *)

\* a path of the cache proper: not a staging path of either kind
FinalPath(path) ==
    /\ path[Len(path)] # ".keg_temp"
    /\ DirName(path) # temp_dir

\* C13: a file that exists at a final cache path exists there after every
\* step of every operation, failed ones included: entries are replaced by
\* rename and never deleted.
C13_EntriesPersist ==
    [][\A path \in DOMAIN files : FinalPath(path) => path \in DOMAIN files']_vars

\* an entry written by one caller was replaced by another caller's promotion
C13_Witness ==
    \E p, q \in Procs :
        /\ p # q
        /\ w[q].op = "save_item" /\ w[q].pc = "done"
        /\ w[p].op = "upgrade_temp_file" /\ w[p].pc = "done"
        /\ w[p].real = w[q].real /\ w[p].pre # Absent
        /\ w[p].real \in DOMAIN files

====
